---- MODULE Spec2Model ----
(***************************************************************************)
(* A model of the LINE webhook relay of joycejoyce/line-messaging-bot:     *)
(* src/app.py (the current service) and src/main_vers3.py (the variant     *)
(* that keeps a sender -> album map).                                       *)
(*                                                                         *)
(* Strings that the code inspects (message bodies, album names) are        *)
(* sequences of characters, one string per character, so that strip,      *)
(* startswith, split and strptime are computed character by character; a   *)
(* character outside ASCII is written by its code point ("U+5EFA"). Fixed  *)
(* reply texts are one-element sequences holding an English gloss of the   *)
(* literal.                                                                *)
(***************************************************************************)
EXTENDS Integers, Sequences, FiniteSets, TLC

VARIABLES
    program,              \* which file runs: "app" or "main_vers3"
    tz_offset,            \* seconds east of UTC of the machine's local time
    processed_image_ids,  \* app.py:242
    processed_video_ids,  \* app.py:243
    video_counters,       \* app.py:245
    local_log,            \* lines appended to ./output/<day>/<day>_msg.txt
    messages,             \* rows of the PostgreSQL table "messages"
    drive_folders,        \* Google Drive: day folders under the root, id = index
    drive_files,          \* Google Drive: files, id = index
    user_albums,          \* main_vers3.py:45
    local_files,          \* main_vers3: files written by save_to_local
    replies,              \* reply_message calls made, in order
    pc,                   \* "idle" or "handling" (inside handler.handle)
    batch_size,           \* events of the request being handled (0 when idle)
    dispatched,           \* events of it whose handler returned (0 when idle)
    dropped,              \* events of the last request that no handler was run for
    http_response,        \* status of the last answered request, 0 = none yet
    sig_ok,               \* whether the last request's signature verified
    handled,              \* events dispatched since the process started
    cur,                  \* the event handed to a handler last
    cur_result,           \* "returned" or "raised": how that handler ended
    delivered,            \* the << kind, message id >> of the media events handed over
    thr,                  \* the handler threads of the concurrent specification
    fetch_calls,          \* get_message_content calls made
    profile_calls,        \* get_profile calls made
    upload_calls,         \* upload_*_to_drive calls made
    fn_args,              \* the arguments a function was last applied to
    fn_result,            \* what it returned
    image_counters        \* main_vers4.py:35

vars == << program, tz_offset, processed_image_ids, processed_video_ids,
           video_counters, local_log, messages, drive_folders, drive_files,
           user_albums, local_files, replies, pc, batch_size, dispatched,
           dropped, http_response, sig_ok, handled, cur, cur_result,
           delivered, thr, fetch_calls, profile_calls, upload_calls,
           fn_args, fn_result, image_counters >>

\* ------------------------------------------------------------------ bounds

\* Events dispatched in one process lifetime.
MaxEvents == 2

\* Handler threads running at once in the concurrent specification.
NThreads == 2

\* ------------------------------------------------------------- characters

DigitChars == {"0", "1", "2", "3", "4", "5", "6", "7", "8", "9"}

DigitValue(c) ==
    CASE c = "0" -> 0 [] c = "1" -> 1 [] c = "2" -> 2 [] c = "3" -> 3
      [] c = "4" -> 4 [] c = "5" -> 5 [] c = "6" -> 6 [] c = "7" -> 7
      [] c = "8" -> 8 [] c = "9" -> 9

\* The characters str.strip() removes, among those the inputs use.
Whitespace == {" ", "\n", "\t"}

\* str.strip(): drop leading and trailing whitespace.
strip(s) ==
    LET keep == {i \in 1..Len(s) : s[i] \notin Whitespace}
    IN  IF keep = {} THEN << >>
        ELSE LET first == CHOOSE i \in keep : \A j \in keep : i <= j
                 last  == CHOOSE i \in keep : \A j \in keep : j <= i
             IN  SubSeq(s, first, last)

\* str.startswith(prefix)
startswith(s, prefix) ==
    /\ Len(s) >= Len(prefix)
    /\ SubSeq(s, 1, Len(prefix)) = prefix

\* "," in details
contains_comma(s) == \E i \in 1..Len(s) : s[i] = ","

\* A split at the last "," instead of the first: with it an album name
\* holding a "," ends up in the date part (C9 fails).
split_last_comma(s) ==
    LET at == CHOOSE i \in 1..Len(s) :
                  s[i] = "," /\ \A j \in (i + 1)..Len(s) : s[j] # ","
    IN  << SubSeq(s, 1, at - 1), SubSeq(s, at + 1, Len(s)) >>

\* details.split(",", 1): the text before and after the first ",".
split_first_comma(s) ==
    LET at == CHOOSE i \in 1..Len(s) :
                  s[i] = "," /\ \A j \in 1..(i - 1) : s[j] # ","
    IN  << SubSeq(s, 1, at - 1), SubSeq(s, at + 1, Len(s)) >>

\* ------------------------------------------------------------------ dates

IsLeap(y) == (y % 4 = 0 /\ y % 100 # 0) \/ y % 400 = 0

DaysInMonth(y, m) ==
    IF m = 2 THEN (IF IsLeap(y) THEN 29 ELSE 28)
    ELSE IF m \in {4, 6, 9, 11} THEN 30 ELSE 31

\* Length of the text the %m directive takes at position p of s, 0 when none;
\* its pattern is 1[0-2]|0[1-9]|[1-9], the alternatives tried in that order.
month_len(s, p) ==
    LET c1 == IF p <= Len(s) THEN s[p] ELSE "x"
        c2 == IF p + 1 <= Len(s) THEN s[p + 1] ELSE "x"
    IN  IF c1 = "1" /\ c2 \in {"0", "1", "2"} THEN 2
        ELSE IF c1 = "0" /\ c2 \in DigitChars \ {"0"} THEN 2
        ELSE IF c1 \in DigitChars \ {"0"} THEN 1
        ELSE 0

\* Length of the text the %d directive takes at position p of s, 0 when none;
\* its pattern is 3[0-1]|[1-2]\d|0[1-9]|[1-9]| [1-9].
day_len(s, p) ==
    LET c1 == IF p <= Len(s) THEN s[p] ELSE "x"
        c2 == IF p + 1 <= Len(s) THEN s[p + 1] ELSE "x"
    IN  IF c1 = "3" /\ c2 \in {"0", "1"} THEN 2
        ELSE IF c1 \in {"1", "2"} /\ c2 \in DigitChars THEN 2
        ELSE IF c1 = "0" /\ c2 \in DigitChars \ {"0"} THEN 2
        ELSE IF c1 \in DigitChars \ {"0"} THEN 1
        ELSE IF c1 = " " /\ c2 \in DigitChars \ {"0"} THEN 2
        ELSE 0

\* The number a run of digit (or blank) characters stands for.
RECURSIVE digits_value(_)
digits_value(s) ==
    IF s = << >> THEN 0
    ELSE LET last == s[Len(s)]
         IN  10 * digits_value(SubSeq(s, 1, Len(s) - 1))
               + (IF last = " " THEN 0 ELSE DigitValue(last))

\* datetime.strptime(s, "%Y-%m-%d") returns (TRUE) or raises ValueError
\* (FALSE): four digits, "-", a month, "-", a day, nothing left over, the year
\* at least 1 and the day within the month.
strptime_ok(s) ==
    /\ Len(s) >= 5
    /\ \A i \in 1..4 : s[i] \in DigitChars
    /\ s[5] = "-"
    /\ LET ml == month_len(s, 6)
       IN  /\ ml > 0
           /\ 6 + ml <= Len(s)
           /\ s[6 + ml] = "-"
           /\ LET dl == day_len(s, 7 + ml)
              IN  /\ dl > 0
                  /\ 6 + ml + dl = Len(s)
                  /\ LET y == digits_value(SubSeq(s, 1, 4))
                         m == digits_value(SubSeq(s, 6, 5 + ml))
                         d == digits_value(SubSeq(s, 7 + ml, 6 + ml + dl))
                     IN  /\ y >= 1
                         /\ d <= DaysInMonth(y, m)

\* Days since 1970-01-01 to the civil date << year, month, day >>, as
\* datetime.fromtimestamp computes it (proleptic Gregorian calendar).
civil_from_days(n) ==
    LET z   == n + 719468
        era == z \div 146097
        doe == z - era * 146097
        yoe == (doe - doe \div 1460 + doe \div 36524 - doe \div 146096) \div 365
        doy == doe - (365 * yoe + yoe \div 4 - yoe \div 100)
        mp  == (5 * doy + 2) \div 153
        d   == doy - (153 * mp + 2) \div 5 + 1
        m   == IF mp < 10 THEN mp + 3 ELSE mp - 9
        y   == yoe + era * 400 + (IF m <= 2 THEN 1 ELSE 0)
    IN  << y, m, d >>

DigitChar(n) == << "0", "1", "2", "3", "4", "5", "6", "7", "8", "9" >>[n + 1]

\* n written with two (%m, %d, %H, %M) and four (%Y) digits.
two_digits(n) == << DigitChar((n \div 10) % 10), DigitChar(n % 10) >>
four_digits(n) == two_digits(n \div 100) \o two_digits(n % 100)

\* An event's timestamp is epoch milliseconds; it is kept as whole seconds
\* and the milliseconds left over, the model's integers being 32 bits wide.
\* datetime.fromtimestamp(event.timestamp / 1000): the local wall-clock time
\* of the machine, tz seconds east of UTC, to the minute.
fromtimestamp(ts, tz) ==
    LET local == ts.sec + tz
        ymd   == civil_from_days(local \div 86400)
        sod   == local % 86400
    IN  [year |-> ymd[1], month |-> ymd[2], day |-> ymd[3],
         hour |-> sod \div 3600, minute |-> (sod % 3600) \div 60]

\* dt.strftime("%Y-%m-%d"), ("%Y%m%d"), ("%H:%M"), ("%H%M")
strftime_Y_m_d(dt) ==
    four_digits(dt.year) \o << "-" >> \o two_digits(dt.month)
        \o << "-" >> \o two_digits(dt.day)
strftime_Ymd(dt) ==
    four_digits(dt.year) \o two_digits(dt.month) \o two_digits(dt.day)
strftime_H_M(dt) == two_digits(dt.hour) \o << ":" >> \o two_digits(dt.minute)
strftime_HM(dt) == two_digits(dt.hour) \o two_digits(dt.minute)

\* ----------------------------------------------------------------- inputs

Programs == {"app", "main_vers3"}

\* The time zone the process runs in, in seconds east of UTC: UTC+8.
TzOffsets == {28800}

Users == {"U1", "U2"}

\* LINE message ids. A message has one sender and one timestamp, which a
\* redelivery repeats: 2023-03-12 08:30:15 UTC and 2023-03-12 16:05:00 UTC
\* (the next calendar day at UTC+8).
MessageIds == {<< "4", "1" >>, << "4", "2" >>}
SenderOf(id) == IF id = << "4", "1" >> THEN "U1" ELSE "U2"
TimestampOf(id) ==
    IF id = << "4", "1" >> THEN [sec |-> 1678609815, ms |-> 250]
    ELSE [sec |-> 1678637100, ms |-> 0]

\* USER_MAPPING_JSON of the deployment (sender id -> display name): U2 is
\* not in it.
USER_MAPPING == [u \in {"U1"} |-> << "J", "o", "y" >>]

\* The display names of the senders' LINE profiles.
ProfileName(u) ==
    IF u = "U1" THEN << "J", "o", "-", "U+66FE" >> ELSE << "U+66FE", " ", "U+5C0F" >>

CREATE_ALBUM == << "U+5EFA", "U+7ACB", "U+76F8", "U+7C3F" >>
CREATE_ALBUM_PREFIX == CREATE_ALBUM \o << ":" >>

\* Message bodies the platform delivers.
Texts == {
    CREATE_ALBUM,
    << " " >> \o CREATE_ALBUM \o << "\n" >>,
    CREATE_ALBUM_PREFIX \o << " ", "2", "0", "2", "3", "-", "0", "3", "-", "1", "2" >>,
    CREATE_ALBUM_PREFIX \o << " ", "2", "0", "2", "3", "-", "0", "3", "-", "1", "2",
                              ",", " ", "U+6211", "U+7684", "U+5047", "U+671F" >>,
    CREATE_ALBUM_PREFIX \o << "2", "0", "2", "4", "-", "0", "2", "-", "2", "9",
                              ",", "a", ",", "b", " " >>,
    CREATE_ALBUM_PREFIX \o << " ", "n", "o", "t", "-", "a", "-", "d", "a", "t", "e",
                              ",", " ", "X" >>,
    CREATE_ALBUM_PREFIX \o << " ", "2", "0", "2", "3", "-", "0", "2", "-", "3", "0",
                              ",", " ", "X" >>,
    CREATE_ALBUM_PREFIX \o << " ", "2", "0", "2", "3", "-", "3", "-", "1",
                              ",", " ", "X" >>,
    CREATE_ALBUM \o << " ", "x" >>,
    << "h", "i", " ", "|", ",", "\t" >>
}

\* Postback data strings, as data.split("&") and item.split("=") cut them: a
\* sequence of items, each the sequence of its "="-separated parts.
PostbackData == {
    << << << "action" >>, << "create_album" >> >>,
       << << "album_date" >>, << "2", "0", "2", "3", "-", "0", "3", "-", "1", "2" >> >>,
       << << "album_name" >>, << "U+6211", "U+7684", "U+76F8", "U+7C3F" >> >> >>,
    << << << "action" >>, << "create_album" >> >> >>,
    << << << "action" >>, << "other" >> >> >>,
    << << << "action" >>, << "create_album" >> >>,
       << << "album_name" >>, << "a" >>, << "b" >> >> >>
}

\* Outcomes of the network and file-system calls a handler makes.
\* get_profile returns, raises LineBotApiError, or raises something else (a
\* connection error of the HTTP client).
ProfileOutcomes == {"ok", "LineBotApiError", "other_error"}
DriveOutcomes ==
    {"ok", "credentials", "folder_list", "folder_create", "file_list", "upload"}

\* The events a request can carry; reply tokens are issued per event.
TextEvents(token) ==
    { [kind |-> "text", message_id |-> id, user_id |-> SenderOf(id),
       timestamp |-> TimestampOf(id), reply_token |-> token, text |-> t] :
      id \in MessageIds, t \in Texts }
MediaEvents(k, token) ==
    { [kind |-> k, message_id |-> id, user_id |-> SenderOf(id),
       timestamp |-> TimestampOf(id), reply_token |-> token] :
      id \in MessageIds }
PostbackEvents(token) ==
    { [kind |-> "postback", user_id |-> u, reply_token |-> token, data |-> d] :
      u \in Users, d \in PostbackData }

\* ------------------------------------------------------------ reply texts

\* app.py:278-280, main_vers3.py:72
REPLY_USAGE ==
    << "Please enter the album data, format:\nCREATE_ALBUM: YYYY-MM-DD, album name\nfor example: CREATE_ALBUM: 2023-03-12, my holiday" >>
\* app.py:292, main_vers3.py:87
REPLY_INVALID_DATE == << "The date format is wrong, please use the YYYY-MM-DD format" >>
\* app.py:299, main_vers3.py:95
REPLY_FORMAT_ERROR ==
    << "Please use the right format, example: CREATE_ALBUM: 2023-03-12, my holiday" >>
\* app.py:295, main_vers3.py:91: the text before {full_album_name}
REPLY_CREATED_PREFIX == << "Album created:" >>

UNKNOWN == << "U", "n", "k", "n", "o", "w", "n" >>

\* app.py:82-84
get_display_name(user_id) ==
    IF user_id \in DOMAIN USER_MAPPING THEN USER_MAPPING[user_id] ELSE UNKNOWN

\* --------------------------------------------------------------- handlers

store_vars == << local_log, messages >>
drive_vars == << drive_folders, drive_files >>
dedup_vars == << processed_image_ids, processed_video_ids, video_counters >>
vers3_vars == << user_albums, local_files >>
call_vars  == << fetch_calls, profile_calls, upload_calls >>
fn_vars    == << fn_args, fn_result >>
vers4_vars == << image_counters >>

\* A reply made twice with the same token (C23 fails).
reply_message_twice(reply_token, text, ok) ==
    /\ replies' = replies \o << [token |-> reply_token, text |-> text],
                                [token |-> reply_token, text |-> text] >>
    /\ cur_result' = IF ok THEN "returned" ELSE "raised"

\* line_bot_api.reply_message(reply_token, message): the call is made, and
\* returns or raises.
reply_message(reply_token, text, ok) ==
    /\ replies' = Append(replies, [token |-> reply_token, text |-> text])
    /\ cur_result' = IF ok THEN "returned" ELSE "raised"

\* app.py:97-105: the line appended to <day>/<day>_msg.txt
log_line(dt, display_name, text) ==
    [file |-> strftime_Y_m_d(dt),
     line |-> strftime_H_M(dt) \o << " ", "|", " " >> \o display_name
                \o << " ", "|", " " >> \o text \o << "\n" >>]

\* app.py:117-142: the row inserted into messages
message_row(table, dt, user_id, display_name, text) ==
    [id |-> Len(table) + 1, user_id |-> user_id, display_name |-> display_name,
     message_text |-> text, created_at |-> dt]

\* A handler that never recognizes the bare command (C7 fails).
is_bare_command_never(text) == FALSE

\* app.py:277: text == "CREATE_ALBUM"
is_bare_command(text) == text = CREATE_ALBUM

\* A handler that never recognizes the prefixed command (C10 fails).
is_prefixed_command_never(text) == FALSE

\* app.py:283: text.startswith("CREATE_ALBUM:")
is_prefixed_command(text) == startswith(text, CREATE_ALBUM_PREFIX)

\* app.py:284-299: the reply to a "CREATE_ALBUM:" command
album_command_reply(text) ==
    LET details == strip(SubSeq(text, Len(CREATE_ALBUM_PREFIX) + 1, Len(text)))
    IN  IF contains_comma(details)
        THEN LET parts      == split_first_comma(details)
                 date_part  == strip(parts[1])
                 album_name == strip(parts[2])
             IN  IF strptime_ok(date_part)
                 THEN [created |-> TRUE,
                       full_album_name |-> date_part \o << "_" >> \o album_name,
                       text |-> REPLY_CREATED_PREFIX \o date_part \o << "_" >> \o album_name]
                 ELSE [created |-> FALSE, full_album_name |-> << >>,
                       text |-> REPLY_INVALID_DATE]
        ELSE [created |-> FALSE, full_album_name |-> << >>,
              text |-> REPLY_FORMAT_ERROR]

\* A text handler that inserts the row before it appends the line (C24
\* fails).
handle_text_message_insert_first(event, append_ok, db_ok, reply_ok) ==
    LET text         == strip(event.text)
        user_id      == event.user_id
        dt           == fromtimestamp(event.timestamp, tz_offset)
        display_name == get_display_name(user_id)
    IN  /\ IF is_bare_command(text)
           THEN /\ reply_message(event.reply_token, REPLY_USAGE, reply_ok)
                /\ UNCHANGED store_vars
           ELSE IF is_prefixed_command(text)
           THEN /\ reply_message(event.reply_token, album_command_reply(text).text, reply_ok)
                /\ UNCHANGED store_vars
           ELSE /\ UNCHANGED replies
                /\ messages' =
                     IF db_ok
                     THEN Append(messages,
                                 message_row(messages, dt, user_id, display_name, text))
                     ELSE messages
                /\ local_log' =
                     IF append_ok
                     THEN Append(local_log, log_line(dt, display_name, text))
                     ELSE local_log
                /\ cur_result' = IF append_ok THEN "returned" ELSE "raised"
        /\ UNCHANGED << drive_vars, dedup_vars, vers3_vars, call_vars >>

\* app.py:262-303
handle_text_message(event, append_ok, db_ok, reply_ok) ==
    LET text         == strip(event.text)
        user_id      == event.user_id
        dt           == fromtimestamp(event.timestamp, tz_offset)
        display_name == get_display_name(user_id)
    IN  /\ IF is_bare_command(text)
           THEN /\ reply_message(event.reply_token, REPLY_USAGE, reply_ok)
                /\ UNCHANGED store_vars
           ELSE IF is_prefixed_command(text)
           THEN /\ reply_message(event.reply_token, album_command_reply(text).text, reply_ok)
                /\ UNCHANGED store_vars
           ELSE /\ UNCHANGED replies
                /\ IF append_ok
                   THEN /\ local_log' = Append(local_log, log_line(dt, display_name, text))
                        /\ messages' =
                             IF db_ok
                             THEN Append(messages,
                                         message_row(messages, dt, user_id, display_name, text))
                             ELSE messages
                        /\ cur_result' = "returned"
                   ELSE /\ UNCHANGED store_vars
                        /\ cur_result' = "raised"
        /\ UNCHANGED << drive_vars, dedup_vars, vers3_vars, call_vars >>

\* The characters of [A-Za-z0-9_\-].
SafeChars ==
    DigitChars \cup {"_", "-"} \cup
    {"a", "b", "c", "d", "e", "f", "g", "h", "i", "j", "k", "l", "m",
     "n", "o", "p", "q", "r", "s", "t", "u", "v", "w", "x", "y", "z",
     "A", "B", "C", "D", "E", "F", "G", "H", "I", "J", "K", "L", "M",
     "N", "O", "P", "Q", "R", "S", "T", "U", "V", "W", "X", "Y", "Z"}

\* app.py:86-88: re.sub(r'[^A-Za-z0-9_\-]+', '', name)
RECURSIVE sanitize_from(_, _)
sanitize_from(name, i) ==
    IF i > Len(name) THEN << >>
    ELSE (IF name[i] \in SafeChars THEN << name[i] >> ELSE << >>)
           \o sanitize_from(name, i + 1)
\* A sanitizer that substitutes "_" for a character outside the class
\* instead of deleting it (C16 fails).
sanitize_filename_substituting(name) ==
    [i \in 1..Len(name) |-> IF name[i] \in SafeChars THEN name[i] ELSE "_"]

sanitize_filename(name) == sanitize_from(name, 1)

\* app.py:145-168: the folder list after the call and the id returned, or
\* raised when the list query or the create call fails. A folder's id is its
\* index in the list.
get_or_create_subfolder(folders, folder_name, outcome) ==
    LET items == {i \in 1..Len(folders) : folders[i] = folder_name}
    IN  IF outcome = "folder_list"
        THEN [raised |-> TRUE, folders |-> folders, folder_id |-> 0]
        ELSE IF items # {}
        THEN [raised |-> FALSE, folders |-> folders,
              folder_id |-> CHOOSE i \in items : \A j \in items : i <= j]
        ELSE IF outcome = "folder_create"
        THEN [raised |-> TRUE, folders |-> folders, folder_id |-> 0]
        ELSE [raised |-> FALSE, folders |-> Append(folders, folder_name),
              folder_id |-> Len(folders) + 1]

\* An uploader without the check by name: it creates a file on every call
\* (C11 fails).
upload_to_drive_always_create(folders, files, filename, day_folder, mimetype, outcome) ==
    IF outcome = "credentials"
    THEN [raised |-> TRUE, folders |-> folders, files |-> files, file_id |-> 0]
    ELSE
    LET sub == get_or_create_subfolder(folders, day_folder, outcome)
    IN  IF sub.raised \/ outcome = "file_list"
        THEN [raised |-> TRUE, folders |-> sub.folders, files |-> files, file_id |-> 0]
        ELSE IF outcome = "upload"
        THEN [raised |-> FALSE, folders |-> sub.folders, files |-> files, file_id |-> 0]
        ELSE [raised |-> FALSE, folders |-> sub.folders,
              files |-> Append(files, [name |-> filename, parent |-> sub.folder_id,
                                       mimetype |-> mimetype]),
              file_id |-> Len(files) + 1]

\* app.py:170-203 (image/jpeg) and app.py:385-418 (video/mp4): the drive
\* after the call, and the file id returned (0 for None) or raised. A file's
\* id is its index in the list.
upload_to_drive(folders, files, filename, day_folder, mimetype, outcome) ==
    IF outcome = "credentials"
    THEN [raised |-> TRUE, folders |-> folders, files |-> files, file_id |-> 0]
    ELSE
    LET sub   == get_or_create_subfolder(folders, day_folder, outcome)
        items == {i \in 1..Len(files) :
                    files[i].name = filename /\ files[i].parent = sub.folder_id}
    IN  IF sub.raised
        THEN [raised |-> TRUE, folders |-> folders, files |-> files, file_id |-> 0]
        ELSE IF outcome = "file_list"
        THEN [raised |-> TRUE, folders |-> sub.folders, files |-> files, file_id |-> 0]
        ELSE IF items # {}
        THEN [raised |-> FALSE, folders |-> sub.folders, files |-> files,
              file_id |-> CHOOSE i \in items : \A j \in items : i <= j]
        ELSE IF outcome = "upload"
        THEN [raised |-> FALSE, folders |-> sub.folders, files |-> files, file_id |-> 0]
        ELSE [raised |-> FALSE, folders |-> sub.folders,
              files |-> Append(files, [name |-> filename, parent |-> sub.folder_id,
                                       mimetype |-> mimetype]),
              file_id |-> Len(files) + 1]

\* A duplicate check that never finds the id (C1 fails).
already_processed_never(ids, message_id) == FALSE

\* app.py:308 and app.py:343: message id in processed ids
already_processed(ids, message_id) == message_id \in ids

\* A filename without the message id (C17 fails).
media_filename_without_id(display_name, dt, message_id, ext) ==
    display_name \o << "_" >> \o strftime_Ymd(dt) \o << "_" >> \o strftime_HM(dt) \o ext

\* app.py:327 and app.py:364
media_filename(display_name, dt, message_id, ext) ==
    display_name \o << "_" >> \o strftime_Ymd(dt) \o << "_" >> \o strftime_HM(dt)
        \o << "_" >> \o message_id \o ext

\* app.py:317-322 and app.py:356-361, given that get_profile did not raise
\* anything but LineBotApiError
profile_display_name(user_id, profile) ==
    IF profile = "ok" THEN sanitize_filename(ProfileName(user_id)) ELSE UNKNOWN

\* What a media handler of app.py does once the event passed the duplicate
\* check and its id is recorded: fetch the content, (for a video) count it,
\* look the sender up, build the names and call the uploader.
\* app.py:313-336 and app.py:348-372
process_media(event, kind, ext, mimetype, fetch_ok, profile, drive) ==
    LET user_id == event.user_id
        dt      == fromtimestamp(event.timestamp, tz_offset)
        key     == << user_id, strftime_Ymd(dt), strftime_HM(dt) >>
        counted == [k \in DOMAIN video_counters \cup {key} |->
                      IF k = key
                      THEN (IF key \in DOMAIN video_counters
                            THEN video_counters[key] ELSE 0) + 1
                      ELSE video_counters[k]]
        filename   == media_filename(profile_display_name(user_id, profile), dt,
                                     event.message_id, ext)
        day_folder == strftime_Y_m_d(dt)
        up == upload_to_drive(drive_folders, drive_files, filename, day_folder,
                              mimetype, drive)
    IN  /\ fetch_calls' = Append(fetch_calls, event.message_id)
        /\ IF ~fetch_ok
           THEN /\ cur_result' = "raised"
                /\ UNCHANGED << video_counters, profile_calls, upload_calls, drive_vars >>
           ELSE /\ video_counters' = IF kind = "video" THEN counted ELSE video_counters
                /\ profile_calls' = Append(profile_calls, user_id)
                /\ IF profile = "other_error"
                   THEN /\ cur_result' = "raised"
                        /\ UNCHANGED << upload_calls, drive_vars >>
                   ELSE /\ upload_calls' =
                             Append(upload_calls,
                                    [kind |-> kind, message_id |-> event.message_id,
                                     filename |-> filename, day_folder |-> day_folder,
                                     file_id |-> up.file_id, raised |-> up.raised])
                        /\ drive_folders' = up.folders
                        /\ drive_files' = up.files
                        /\ cur_result' = IF up.raised THEN "raised" ELSE "returned"

\* app.py:305-336
handle_image_message(event, fetch_ok, profile, drive) ==
    /\ IF already_processed(processed_image_ids, event.message_id)
       THEN /\ cur_result' = "returned"
            /\ UNCHANGED << dedup_vars, call_vars, drive_vars >>
       ELSE /\ processed_image_ids' = processed_image_ids \cup {event.message_id}
            /\ UNCHANGED processed_video_ids
            /\ process_media(event, "image", << ".", "j", "p", "g" >>, "image/jpeg",
                             fetch_ok, profile, drive)
    /\ UNCHANGED << store_vars, vers3_vars, replies >>

\* A video handler that shares the image handler's set (C20 fails).
handle_video_message_shared_set(event, fetch_ok, profile, drive) ==
    /\ IF already_processed(processed_image_ids, event.message_id)
       THEN /\ cur_result' = "returned"
            /\ UNCHANGED << dedup_vars, call_vars, drive_vars >>
       ELSE /\ processed_image_ids' = processed_image_ids \cup {event.message_id}
            /\ UNCHANGED processed_video_ids
            /\ process_media(event, "video", << ".", "m", "p", "4" >>, "video/mp4",
                             fetch_ok, profile, drive)
    /\ UNCHANGED << store_vars, vers3_vars, replies >>

\* app.py:338-372
handle_video_message(event, fetch_ok, profile, drive) ==
    /\ IF already_processed(processed_video_ids, event.message_id)
       THEN /\ cur_result' = "returned"
            /\ UNCHANGED << dedup_vars, call_vars, drive_vars >>
       ELSE /\ processed_video_ids' = processed_video_ids \cup {event.message_id}
            /\ UNCHANGED processed_image_ids
            /\ process_media(event, "video", << ".", "m", "p", "4" >>, "video/mp4",
                             fetch_ok, profile, drive)
    /\ UNCHANGED << store_vars, vers3_vars, replies >>

\* dict(item.split("=") for item in data.split("&")) raises ValueError unless
\* every item has exactly two parts. app.py:377, main_vers3.py:129
params_ok(data) == \A i \in 1..Len(data) : Len(data[i]) = 2

\* params.get(key, default): a later item with the same key wins.
params_get(data, key, default) ==
    LET at == {i \in 1..Len(data) : data[i][1] = << key >>}
    IN  IF at = {} THEN default
        ELSE data[CHOOSE i \in at : \A j \in at : j <= i][2]

\* datetime.now().strftime("%Y-%m-%d") at the time of the postback.
NOW_DATE == << "2", "0", "2", "3", "-", "0", "3", "-", "1", "3" >>

\* app.py:379-381, main_vers3.py:131-133
postback_album_name(data) ==
    params_get(data, "album_date", NOW_DATE) \o << "_" >>
        \o params_get(data, "album_name", << "d", "e", "f", "a", "u", "l", "t" >>)

\* app.py:374-383
handle_postback(event, reply_ok) ==
    /\ IF ~params_ok(event.data)
       THEN /\ cur_result' = "raised"
            /\ UNCHANGED replies
       ELSE IF params_get(event.data, "action", << >>) = << "create_album" >>
       THEN reply_message(event.reply_token,
                          REPLY_CREATED_PREFIX \o postback_album_name(event.data),
                          reply_ok)
       ELSE /\ cur_result' = "returned"
            /\ UNCHANGED replies
    /\ UNCHANGED << store_vars, drive_vars, dedup_vars, vers3_vars, call_vars >>

\* ------------------------------------------------------------- main_vers3

\* main_vers3.py:33-42: the file written (its folder is relative to
\* OUTPUT_DIR, its uuid4 part is fresh), or the write raises.
save_to_local(kind, event, folder, ext, ok) ==
    /\ local_files' =
         IF ok
         THEN Append(local_files,
                     [folder |-> folder, kind |-> kind, user_id |-> event.user_id,
                      uuid |-> handled + 1, ext |-> ext])
         ELSE local_files
    /\ cur_result' = IF ok THEN "returned" ELSE "raised"

\* main_vers3.py:64-102
main_vers3_handle_text_message(event, save_ok, reply_ok) ==
    LET text    == strip(event.text)
        user_id == event.user_id
        cmd     == album_command_reply(text)
    IN  /\ IF is_bare_command(text)
           THEN /\ reply_message(event.reply_token, REPLY_USAGE, reply_ok)
                /\ UNCHANGED vers3_vars
           ELSE IF is_prefixed_command(text)
           THEN /\ user_albums' =
                     IF cmd.created
                     THEN [u \in DOMAIN user_albums \cup {user_id} |->
                             IF u = user_id THEN cmd.full_album_name
                             ELSE user_albums[u]]
                     ELSE user_albums
                /\ reply_message(event.reply_token, cmd.text, reply_ok)
                /\ UNCHANGED local_files
           ELSE /\ save_to_local("text", event, << >>, "txt", save_ok)
                /\ UNCHANGED << user_albums, replies >>
        /\ UNCHANGED << store_vars, drive_vars, dedup_vars, call_vars >>

\* main_vers3.py:126-140
main_vers3_handle_postback(event, reply_ok) ==
    /\ IF ~params_ok(event.data)
       THEN /\ cur_result' = "raised"
            /\ UNCHANGED << replies, user_albums >>
       ELSE IF params_get(event.data, "action", << >>) = << "create_album" >>
       THEN /\ user_albums' =
                 [u \in DOMAIN user_albums \cup {event.user_id} |->
                    IF u = event.user_id THEN postback_album_name(event.data)
                    ELSE user_albums[u]]
            /\ reply_message(event.reply_token,
                             REPLY_CREATED_PREFIX \o postback_album_name(event.data),
                             reply_ok)
       ELSE /\ cur_result' = "returned"
            /\ UNCHANGED << replies, user_albums >>
    /\ UNCHANGED << store_vars, drive_vars, dedup_vars, local_files, call_vars >>

\* main_vers3.py:143-156 (image) and main_vers3.py:159-171 (video)
main_vers3_handle_media_message(event, kind, ext, fetch_ok, save_ok) ==
    LET album_name == IF event.user_id \in DOMAIN user_albums
                      THEN user_albums[event.user_id]
                      ELSE << "d", "e", "f", "a", "u", "l", "t" >>
    IN  /\ fetch_calls' = Append(fetch_calls, event.message_id)
        /\ IF fetch_ok
           THEN save_to_local(kind, event, album_name, ext, save_ok)
           ELSE /\ cur_result' = "raised"
                /\ UNCHANGED local_files
        /\ UNCHANGED << store_vars, drive_vars, dedup_vars, user_albums, replies,
                        profile_calls, upload_calls >>

\* --------------------------------------------------------------- callback

\* WebhookHandler.handle, as callback uses it (app.py:255-259,
\* main_vers3.py:56-61): the handler's result decides whether the loop over
\* the batch goes on. An exception of a handler is not caught: it leaves the
\* loop and callback, and the web framework answers 500.
after_handler(event) ==
    /\ cur' = event
    /\ handled' = handled + 1
    /\ delivered' = IF event.kind \in {"image", "video"}
                    THEN delivered \cup {<< event.kind, event.message_id >>}
                    ELSE delivered
    /\ IF cur_result' = "raised"
       THEN /\ pc' = "idle"
            /\ http_response' = 500
            /\ dropped' = batch_size - dispatched - 1
            /\ batch_size' = 0
            /\ dispatched' = 0
       ELSE /\ dispatched' = dispatched + 1
            /\ UNCHANGED << pc, http_response, dropped, batch_size >>
    /\ UNCHANGED << program, tz_offset, sig_ok, thr, fn_vars, vers4_vars >>

\* A verification that accepts every signature (C4 fails).
signature_verifies_always(valid) == TRUE

\* handler.handle(body, signature) verifies the signature before anything
\* else, and raises InvalidSignatureError when it does not match.
signature_verifies(valid) == valid

\* app.py:250-260, main_vers3.py:50-62: a request arrives with n events in
\* its body. With a bad signature it is answered 400 and the body is never
\* parsed; with a good one and no event it is answered 200; otherwise the
\* events are dispatched in order.
callback(valid, n) ==
    /\ pc = "idle"
    /\ sig_ok' = valid
    /\ dispatched' = 0
    /\ dropped' = 0
    /\ IF ~signature_verifies(valid)
       THEN /\ http_response' = 400
            /\ batch_size' = 0
            /\ pc' = "idle"
       ELSE IF n = 0
       THEN /\ http_response' = 200
            /\ batch_size' = 0
            /\ pc' = "idle"
       ELSE /\ http_response' = 0
            /\ batch_size' = n
            /\ pc' = "handling"
    /\ UNCHANGED << program, tz_offset, store_vars, drive_vars, dedup_vars,
                    vers3_vars, call_vars, replies, handled, cur, cur_result,
                    delivered, thr, fn_vars, vers4_vars >>

\* app.py:260: return "OK", 200, once handler.handle returned.
callback_return ==
    /\ pc = "handling"
    /\ dispatched = batch_size
    /\ http_response' = 200
    /\ pc' = "idle"
    /\ batch_size' = 0
    /\ dispatched' = 0
    /\ UNCHANGED << program, tz_offset, store_vars, drive_vars, dedup_vars,
                    vers3_vars, call_vars, replies, dropped, sig_ok, handled,
                    cur, cur_result, delivered, thr, fn_vars, vers4_vars >>

CanDispatch == pc = "handling" /\ dispatched < batch_size

Receive == \E valid \in BOOLEAN, n \in 0..(MaxEvents - handled) : callback(valid, n)

\* The outcomes of a text handler's calls: << local append or save, database
\* insert, reply >>. A handler makes the reply or the writes, and the insert
\* only after the append, so one failing call at a time covers every case.
TextOutcomes ==
    { << TRUE, TRUE, TRUE >>, << FALSE, TRUE, TRUE >>, << TRUE, FALSE, TRUE >>,
      << TRUE, TRUE, FALSE >> }

\* The outcomes of a media handler's calls: << content fetch, profile lookup,
\* drive >>; a call is made only if the ones before it did not raise.
MediaOutcomes ==
    { << FALSE, "ok", "ok" >>, << TRUE, "other_error", "ok" >> }
      \cup { << TRUE, p, d >> : p \in {"ok", "LineBotApiError"}, d \in DriveOutcomes }

DispatchText ==
    /\ CanDispatch
    /\ \E event \in TextEvents(handled + 1), io \in TextOutcomes :
         /\ \/ program = "app" /\ handle_text_message(event, io[1], io[2], io[3])
            \/ program = "main_vers3" /\ io[2]
                 /\ main_vers3_handle_text_message(event, io[1], io[3])
         /\ after_handler(event)

DispatchImage ==
    /\ CanDispatch
    /\ \E event \in MediaEvents("image", handled + 1) :
         /\ \/ /\ program = "app"
               /\ \E io \in MediaOutcomes :
                    handle_image_message(event, io[1], io[2], io[3])
            \/ /\ program = "main_vers3"
               /\ \E fetch_ok, save_ok \in BOOLEAN :
                    /\ fetch_ok \/ save_ok
                    /\ main_vers3_handle_media_message(event, "image", "jpg", fetch_ok, save_ok)
         /\ after_handler(event)

DispatchVideo ==
    /\ CanDispatch
    /\ \E event \in MediaEvents("video", handled + 1) :
         /\ \/ /\ program = "app"
               /\ \E io \in MediaOutcomes :
                    handle_video_message(event, io[1], io[2], io[3])
            \/ /\ program = "main_vers3"
               /\ \E fetch_ok, save_ok \in BOOLEAN :
                    /\ fetch_ok \/ save_ok
                    /\ main_vers3_handle_media_message(event, "video", "mp4", fetch_ok, save_ok)
         /\ after_handler(event)

DispatchPostback ==
    /\ CanDispatch
    /\ \E event \in PostbackEvents(handled + 1), reply_ok \in BOOLEAN :
         /\ \/ program = "app" /\ handle_postback(event, reply_ok)
            \/ program = "main_vers3" /\ main_vers3_handle_postback(event, reply_ok)
         /\ after_handler(event)

\* An event no handler is registered for (follow, join, sticker, ...): the
\* dispatcher skips it.
DispatchOther ==
    /\ CanDispatch
    /\ cur_result' = "returned"
    /\ UNCHANGED << store_vars, drive_vars, dedup_vars, vers3_vars, call_vars, replies >>
    /\ after_handler([kind |-> "other", reply_token |-> handled + 1])

Init ==
    /\ program \in Programs
    /\ tz_offset \in TzOffsets
    /\ processed_image_ids = {}
    /\ processed_video_ids = {}
    /\ video_counters = << >>
    /\ local_log = << >>
    /\ messages = << >>
    /\ drive_folders = << >>
    /\ drive_files = << >>
    /\ user_albums = << >>
    /\ local_files = << >>
    /\ replies = << >>
    /\ pc = "idle"
    /\ batch_size = 0
    /\ dispatched = 0
    /\ dropped = 0
    /\ http_response = 0
    /\ sig_ok = TRUE
    /\ handled = 0
    /\ cur = [kind |-> "none"]
    /\ cur_result = "returned"
    /\ delivered = {}
    /\ thr = [t \in 1..NThreads |-> [pc |-> "idle", kind |-> "none", message_id |-> << >>]]
    /\ fetch_calls = << >>
    /\ profile_calls = << >>
    /\ upload_calls = << >>
    /\ fn_args = << >>
    /\ fn_result = << >>
    /\ image_counters = << >>

Next ==
    \/ Receive
    \/ DispatchText
    \/ DispatchImage
    \/ DispatchVideo
    \/ DispatchPostback
    \/ DispatchOther
    \/ callback_return

Spec == Init /\ [][Next]_vars

\* ------------------------------------------------- concurrent handlers

\* The web server runs each request in a thread of its own, so two handlers
\* of app.py can run at once. A thread's handler is followed statement by
\* statement up to the point where the event's id is recorded: the membership
\* test (app.py:308, app.py:343) and the add (app.py:311, app.py:346) are
\* separate statements, and another thread can run between them.

thread_event(t) ==
    [kind |-> thr[t].kind, message_id |-> thr[t].message_id,
     user_id |-> SenderOf(thr[t].message_id),
     timestamp |-> TimestampOf(thr[t].message_id), reply_token |-> 0]

conc_frame ==
    UNCHANGED << program, tz_offset, store_vars, vers3_vars, replies, pc,
                 batch_size, dispatched, dropped, http_response, sig_ok,
                 handled, cur, fn_vars, vers4_vars >>

\* An image or video event is handed to its handler in thread t.
conc_deliver(t, kind, message_id) ==
    /\ thr[t].pc = "idle"
    /\ thr' = [thr EXCEPT ![t] = [pc |-> "check", kind |-> kind,
                                  message_id |-> message_id]]
    /\ delivered' = delivered \cup {<< kind, message_id >>}
    /\ UNCHANGED << dedup_vars, drive_vars, call_vars, cur_result >>
    /\ conc_frame

\* app.py:308-310 and app.py:343-345
conc_check(t) ==
    /\ thr[t].pc = "check"
    /\ LET ids == IF thr[t].kind = "image" THEN processed_image_ids
                  ELSE processed_video_ids
       IN  thr' = [thr EXCEPT ![t].pc =
                     IF already_processed(ids, thr[t].message_id)
                     THEN "skipped" ELSE "add"]
    /\ UNCHANGED << dedup_vars, drive_vars, call_vars, cur_result, delivered >>
    /\ conc_frame

\* app.py:311 and app.py:346
conc_add(t) ==
    /\ thr[t].pc = "add"
    /\ IF thr[t].kind = "image"
       THEN /\ processed_image_ids' = processed_image_ids \cup {thr[t].message_id}
            /\ UNCHANGED processed_video_ids
       ELSE /\ processed_video_ids' = processed_video_ids \cup {thr[t].message_id}
            /\ UNCHANGED processed_image_ids
    /\ thr' = [thr EXCEPT ![t].pc = "process"]
    /\ UNCHANGED << video_counters, drive_vars, call_vars, cur_result, delivered >>
    /\ conc_frame

\* app.py:313-336 and app.py:348-372
conc_process(t, fetch_ok, profile, drive) ==
    /\ thr[t].pc = "process"
    /\ IF thr[t].kind = "image"
       THEN process_media(thread_event(t), "image", << ".", "j", "p", "g" >>,
                          "image/jpeg", fetch_ok, profile, drive)
       ELSE process_media(thread_event(t), "video", << ".", "m", "p", "4" >>,
                          "video/mp4", fetch_ok, profile, drive)
    /\ thr' = [thr EXCEPT ![t].pc = "done"]
    /\ UNCHANGED << processed_image_ids, processed_video_ids, delivered >>
    /\ conc_frame

ConcDeliver ==
    \E t \in 1..NThreads, kind \in {"image", "video"}, message_id \in MessageIds :
        conc_deliver(t, kind, message_id)
ConcCheck == \E t \in 1..NThreads : conc_check(t)
ConcAdd == \E t \in 1..NThreads : conc_add(t)
ConcProcess ==
    \E t \in 1..NThreads, io \in MediaOutcomes : conc_process(t, io[1], io[2], io[3])

InitConc == Init /\ program = "app"

NextConc == ConcDeliver \/ ConcCheck \/ ConcAdd \/ ConcProcess

SpecConc == InitConc /\ [][NextConc]_vars

\* ------------------------------------------------------- the uploader alone

\* Calls of the uploader made in a row on one Drive.
MaxUploads == 2

\* Target file names and day folders handed to the uploader.
DriveFilenames == {<< "a", ".", "j", "p", "g" >>, << "b", ".", "m", "p", "4" >>}
DayFolders ==
    {<< "2", "0", "2", "3", "-", "0", "3", "-", "1", "2" >>,
     << "2", "0", "2", "3", "-", "0", "3", "-", "1", "3" >>}

drive_frame ==
    UNCHANGED << program, tz_offset, store_vars, dedup_vars, vers3_vars, replies,
                 pc, batch_size, dispatched, dropped, http_response, sig_ok,
                 handled, cur, cur_result, delivered, thr, fetch_calls,
                 profile_calls, fn_vars, vers4_vars >>

\* One call of an uploader on the Drive as it is, recorded in upload_calls.
drive_call(kind, mimetype, filename, day_folder, outcome) ==
    LET up == upload_to_drive(drive_folders, drive_files, filename, day_folder,
                              mimetype, outcome)
    IN  /\ Len(upload_calls) < MaxUploads
        /\ drive_folders' = up.folders
        /\ drive_files' = up.files
        /\ upload_calls' =
             Append(upload_calls,
                    [kind |-> kind, message_id |-> << >>, filename |-> filename,
                     day_folder |-> day_folder, file_id |-> up.file_id,
                     raised |-> up.raised])
        /\ drive_frame

\* app.py:170-203
upload_image_to_drive ==
    \E filename \in DriveFilenames, day_folder \in DayFolders, outcome \in DriveOutcomes :
        drive_call("image", "image/jpeg", filename, day_folder, outcome)

\* app.py:385-418 (the definition in force; app.py:205-238 is the same text)
upload_video_to_drive ==
    \E filename \in DriveFilenames, day_folder \in DayFolders, outcome \in DriveOutcomes :
        drive_call("video", "video/mp4", filename, day_folder, outcome)

NextDrive == upload_image_to_drive \/ upload_video_to_drive

SpecDrive == InitConc /\ [][NextDrive]_vars

\* ------------------------------------------- concurrent folder resolution

\* get_or_create_subfolder followed statement by statement in each thread:
\* the list query (app.py:153) and the create call (app.py:165) are separate
\* requests to the Drive, and another thread's requests can come between.

folder_frame ==
    UNCHANGED << program, tz_offset, store_vars, dedup_vars, vers3_vars, replies,
                 pc, batch_size, dispatched, dropped, http_response, sig_ok,
                 handled, cur, cur_result, delivered, call_vars, drive_files,
                 fn_vars, vers4_vars >>

\* app.py:145: thread t enters get_or_create_subfolder for folder_name.
folder_call(t, folder_name) ==
    /\ thr[t].pc \in {"idle", "done", "raised"}
    /\ thr' = [thr EXCEPT ![t] = [pc |-> "list", kind |-> "folder",
                                  message_id |-> folder_name, folder_id |-> 0]]
    /\ UNCHANGED drive_folders
    /\ folder_frame

\* app.py:149-159: the list query, and the return of items[0]['id'] when a
\* folder of the name was found.
folder_list(t, ok) ==
    /\ thr[t].pc = "list"
    /\ LET items == {i \in 1..Len(drive_folders) : drive_folders[i] = thr[t].message_id}
       IN  thr' = [thr EXCEPT ![t] =
                     IF ~ok THEN [@ EXCEPT !.pc = "raised"]
                     ELSE IF items # {}
                     THEN [@ EXCEPT !.pc = "done",
                                    !.folder_id = CHOOSE i \in items : \A j \in items : i <= j]
                     ELSE [@ EXCEPT !.pc = "create"]]
    /\ UNCHANGED drive_folders
    /\ folder_frame

\* app.py:160-168: the create call and the return of the new folder's id.
folder_create(t, ok) ==
    /\ thr[t].pc = "create"
    /\ IF ok
       THEN /\ drive_folders' = Append(drive_folders, thr[t].message_id)
            /\ thr' = [thr EXCEPT ![t] = [@ EXCEPT !.pc = "done",
                                                   !.folder_id = Len(drive_folders) + 1]]
       ELSE /\ UNCHANGED drive_folders
            /\ thr' = [thr EXCEPT ![t] = [@ EXCEPT !.pc = "raised"]]
    /\ folder_frame

FolderCall == \E t \in 1..NThreads, folder_name \in DayFolders : folder_call(t, folder_name)
FolderList == \E t \in 1..NThreads, ok \in BOOLEAN : folder_list(t, ok)
FolderCreate == \E t \in 1..NThreads, ok \in BOOLEAN : folder_create(t, ok)

NextFolder == FolderCall \/ FolderList \/ FolderCreate

SpecFolder == InitConc /\ [][NextFolder]_vars

\* ------------------------------------------------ sanitize_filename alone

\* Characters of display names: letters, a digit, the two punctuation marks
\* the pattern keeps, and characters it does not keep.
NameChars == {"a", "Z", "7", "_", "-", " ", ".", "U+66FE"}

\* Longest display name handed to sanitize_filename.
MaxNameLen == 3

Names == UNION {[1..n -> NameChars] : n \in 0..MaxNameLen}

fn_frame ==
    UNCHANGED << program, tz_offset, store_vars, drive_vars, dedup_vars,
                 vers3_vars, call_vars, replies, pc, batch_size, dispatched,
                 dropped, http_response, sig_ok, handled, cur, cur_result,
                 delivered, thr, vers4_vars >>

\* app.py:86-88 applied to a display name, once in a behaviour.
apply_sanitize_filename ==
    \E name \in Names :
        /\ fn_args = << >> /\ fn_result = << >>
        /\ fn_args' = name
        /\ fn_result' = sanitize_filename(name)
        /\ fn_frame

SpecSanitize == InitConc /\ [][apply_sanitize_filename]_vars

\* ------------------------------------------------- the media filename alone

\* Display names a media handler can hold (app.py:319-321): sanitized
\* profile names, one of them looking like the head of a filename, the empty
\* name a profile name without a kept character gives, and the sentinel.
DisplayNames ==
    {sanitize_filename(ProfileName(u)) : u \in Users}
        \cup {<< "J", "o", "_", "2", "0", "2", "3", "0", "3", "1", "2", "_",
                 "1", "6", "3", "0", "_", "4" >>,
              UNKNOWN}

\* Message ids: decimal strings, one the tail of another.
FilenameIds == MessageIds \cup {<< "1" >>}

FilenameInputs ==
    [display_name : DisplayNames,
     timestamp : {TimestampOf(id) : id \in MessageIds},
     message_id : FilenameIds]

\* app.py:324-327 (".jpg") and app.py:350-351, 364 (".mp4") applied to two
\* events of one kind with different message ids.
apply_media_filename ==
    \E kind \in {"image", "video"}, a, b \in FilenameInputs :
        LET ext == IF kind = "image" THEN << ".", "j", "p", "g" >>
                   ELSE << ".", "m", "p", "4" >>
            name(e) == media_filename(e.display_name,
                                      fromtimestamp(e.timestamp, tz_offset),
                                      e.message_id, ext)
        IN  /\ fn_args = << >> /\ fn_result = << >>
            /\ a.message_id # b.message_id
            /\ fn_args' = << kind, a, b >>
            /\ fn_result' = << name(a), name(b) >>
            /\ fn_frame

SpecFilename == InitConc /\ [][apply_media_filename]_vars

\* ------------------------------------------------- redelivery after restart

redelivery_frame ==
    UNCHANGED << program, tz_offset, store_vars, drive_vars, vers3_vars, replies,
                 call_vars, dropped, http_response, sig_ok, handled, cur,
                 cur_result, thr, fn_vars, vers4_vars >>

\* The process is stopped and started again: the module-level sets and
\* counters (app.py:242-245) start empty, the Drive keeps its folders and
\* files. A request in progress is lost with the process.
restart ==
    /\ processed_image_ids # {} \/ processed_video_ids # {}
    /\ processed_image_ids' = {}
    /\ processed_video_ids' = {}
    /\ video_counters' = << >>
    /\ delivered' = {}
    /\ pc' = "idle"
    /\ batch_size' = 0
    /\ dispatched' = 0
    /\ redelivery_frame

NextRedelivery ==
    \/ Receive
    \/ DispatchImage
    \/ DispatchVideo
    \/ callback_return
    \/ restart

SpecRedelivery == InitConc /\ [][NextRedelivery]_vars

\* -------------------------------------------------------------- main_vers4

\* The media messages main_vers4 receives, each with its sender and send
\* time: 41 and 42 as before, 43 sent by the other sender in the minute of
\* 41 (2023-03-12 08:30:35 UTC), 44 by the sender of 41 in that minute.
Vers4Messages ==
    { [message_id |-> id, user_id |-> SenderOf(id), timestamp |-> TimestampOf(id)] :
      id \in MessageIds }
      \cup { [message_id |-> << "4", "3" >>, user_id |-> "U2",
              timestamp |-> [sec |-> 1678609835, ms |-> 0]],
            [message_id |-> << "4", "4" >>, user_id |-> "U1",
              timestamp |-> [sec |-> 1678609835, ms |-> 0]] }

Vers4Events(k) ==
    { [kind |-> k, message_id |-> m.message_id, user_id |-> m.user_id,
       timestamp |-> m.timestamp, reply_token |-> handled + 1] :
      m \in Vers4Messages }

\* main_vers4.py:144-146 and 169-171: the counters after one more event of
\* the key.
counted(counters, key) ==
    [k \in DOMAIN counters \cup {key} |->
       IF k = key THEN (IF key \in DOMAIN counters THEN counters[key] ELSE 0) + 1
       ELSE counters[k]]

\* main_vers4.py:154 and 179: f"{display_name}_{date_str}_{time_str}_{sequence:02d}.jpg"
main_vers4_filename(display_name, dt, sequence, ext) ==
    display_name \o << "_" >> \o strftime_Ymd(dt) \o << "_" >> \o strftime_HM(dt)
        \o << "_" >> \o two_digits(sequence) \o ext

\* main_vers4.py:148-152 and 173-177: except Exception catches every error
\* of the lookup.
main_vers4_display_name(user_id, profile) ==
    IF profile = "ok" THEN sanitize_filename(ProfileName(user_id)) ELSE UNKNOWN

\* main_vers4.py:59-68: open(filepath, "wb") creates the file or replaces
\* its content; local_files lists the writes made.
main_vers4_save_to_local(kind, event, filename, folder, ok) ==
    /\ local_files' =
         IF ok
         THEN Append(local_files,
                     [folder |-> folder, filename |-> filename, kind |-> kind,
                      user_id |-> event.user_id, message_id |-> event.message_id])
         ELSE local_files
    /\ cur_result' = IF ok THEN "returned" ELSE "raised"

\* main_vers4.py:132-157 (image) and main_vers4.py:159-182 (video)
main_vers4_handle_media_message(event, kind, ext, fetch_ok, profile, save_ok) ==
    LET user_id  == event.user_id
        dt       == fromtimestamp(event.timestamp, tz_offset)
        folder   == strftime_Y_m_d(dt)
        key      == << user_id, strftime_Ymd(dt), strftime_HM(dt) >>
        counters == IF kind = "image" THEN image_counters ELSE video_counters
        sequence == counted(counters, key)[key]
        filename == main_vers4_filename(main_vers4_display_name(user_id, profile),
                                        dt, sequence, ext)
    IN  /\ handled < MaxEvents
        /\ handled' = handled + 1
        /\ cur' = event
        /\ fetch_calls' = Append(fetch_calls, event.message_id)
        /\ IF ~fetch_ok
           THEN /\ cur_result' = "raised"
                /\ UNCHANGED << image_counters, video_counters, profile_calls,
                                local_files >>
           ELSE /\ IF kind = "image"
                   THEN /\ image_counters' = counted(image_counters, key)
                        /\ UNCHANGED video_counters
                   ELSE /\ video_counters' = counted(video_counters, key)
                        /\ UNCHANGED image_counters
                /\ profile_calls' = Append(profile_calls, user_id)
                /\ main_vers4_save_to_local(kind, event, filename, folder, save_ok)
        /\ UNCHANGED << program, tz_offset, processed_image_ids, processed_video_ids,
                        store_vars, drive_vars, user_albums, replies, pc, batch_size,
                        dispatched, dropped, http_response, sig_ok, delivered, thr,
                        upload_calls, fn_vars >>

\* The outcomes of a main_vers4 media handler's calls: << content fetch,
\* profile lookup, local write >>; a call is made only if the ones before it
\* did not raise.
Vers4Outcomes ==
    { << FALSE, "ok", TRUE >> }
      \cup { << TRUE, p, TRUE >> : p \in {"ok", "error"} }
      \cup { << TRUE, "ok", FALSE >> }

main_vers4_handle_image_message ==
    \E event \in Vers4Events("image"), io \in Vers4Outcomes :
        main_vers4_handle_media_message(event, "image", << ".", "j", "p", "g" >>,
                                        io[1], io[2], io[3])

main_vers4_handle_video_message ==
    \E event \in Vers4Events("video"), io \in Vers4Outcomes :
        main_vers4_handle_media_message(event, "video", << ".", "m", "p", "4" >>,
                                        io[1], io[2], io[3])

InitVers4 ==
    /\ program = "main_vers4"
    /\ tz_offset \in TzOffsets
    /\ processed_image_ids = {} /\ processed_video_ids = {}
    /\ video_counters = << >> /\ image_counters = << >>
    /\ local_log = << >> /\ messages = << >>
    /\ drive_folders = << >> /\ drive_files = << >>
    /\ user_albums = << >> /\ local_files = << >>
    /\ replies = << >>
    /\ pc = "idle" /\ batch_size = 0 /\ dispatched = 0 /\ dropped = 0
    /\ http_response = 0 /\ sig_ok = TRUE
    /\ handled = 0
    /\ cur = [kind |-> "none"] /\ cur_result = "returned"
    /\ delivered = {}
    /\ thr = [t \in 1..NThreads |-> [pc |-> "idle", kind |-> "none", message_id |-> << >>]]
    /\ fetch_calls = << >> /\ profile_calls = << >> /\ upload_calls = << >>
    /\ fn_args = << >> /\ fn_result = << >>

NextVers4 == main_vers4_handle_image_message \/ main_vers4_handle_video_message

SpecVers4 == InitVers4 /\ [][NextVers4]_vars

\* ------------------------------------------------------------------ claims

\* A handler of the sequential specification has just run on cur'.
HandlerStep == handled' = handled + 1

MediaKinds == {"image", "video"}

\* Calls of the uploader made for message id of the given kind.
UploadCount(kind, id) ==
    Cardinality({i \in 1..Len(upload_calls) :
                   upload_calls[i].kind = kind /\ upload_calls[i].message_id = id})

Last(seq) == seq[Len(seq)]

\* The body of a text event as the claims read it: trimmed.
Body(event) == strip(event.text)

\* The claims' reading of a command, written without the handler's helpers.
HasPrefix(body) ==
    /\ Len(body) >= 5
    /\ \A i \in 1..4 : body[i] = CREATE_ALBUM[i]
    /\ body[5] = ":"
IsBare(body) == Len(body) = 4 /\ \A i \in 1..4 : body[i] = CREATE_ALBUM[i]
IsCommand(body) == IsBare(body) \/ HasPrefix(body)
Rest(body) == [i \in 1..(Len(body) - 5) |-> body[i + 5]]
HasComma(s) == "," \in {s[i] : i \in 1..Len(s)}

\* The text before the first "," of s (all of s when it has none), and the
\* text after it.
CommaCount(s, n) == Cardinality({i \in 1..n : s[i] = ","})
BeforeFirstComma(s) ==
    LET before == {i \in 1..Len(s) : CommaCount(s, i) = 0}
    IN  [i \in 1..Cardinality(before) |-> s[i]]
AfterFirstComma(s) ==
    LET skip == Cardinality({i \in 1..Len(s) : CommaCount(s, i) = 0}) + 1
    IN  [i \in 1..(Len(s) - skip) |-> s[i + skip]]

\* A calendar date written YYYY-MM-DD: ten characters, four digits, two
\* digits, two digits, a month 01..12 and a day of that month.
IsIsoDate(s) ==
    /\ Len(s) = 10
    /\ \A i \in {1, 2, 3, 4, 6, 7, 9, 10} : s[i] \in DigitChars
    /\ s[5] = "-" /\ s[8] = "-"
    /\ LET y == 1000 * DigitValue(s[1]) + 100 * DigitValue(s[2])
                  + 10 * DigitValue(s[3]) + DigitValue(s[4])
           m == 10 * DigitValue(s[6]) + DigitValue(s[7])
           d == 10 * DigitValue(s[9]) + DigitValue(s[10])
       IN  /\ y >= 1
           /\ m \in 1..12
           /\ d \in 1..DaysInMonth(y, m)

\* Nothing but the replies and the bookkeeping of the request changes.
NoSideEffect ==
    UNCHANGED << store_vars, drive_vars, dedup_vars, vers3_vars, call_vars >>

\* C1: in app.py, handling image (video) events one after the other, the
\* uploader is called at most once per message id, and an invocation for an
\* id that was handed to the same handler before is a no-op: no content
\* fetch, no profile lookup, no upload, no change of the drive or the sets.
C1_UploadedAtMostOnce ==
    /\ [](program = "app" =>
            \A k \in MediaKinds, id \in MessageIds : UploadCount(k, id) <= 1)
    /\ [][(/\ program = "app"
           /\ HandlerStep
           /\ cur'.kind \in MediaKinds
           /\ << cur'.kind, cur'.message_id >> \in delivered)
          => (/\ UNCHANGED << call_vars, drive_vars, dedup_vars, store_vars, replies >>
              /\ cur_result' = "returned")]_vars

\* C1 witness: the second event of the process is the redelivery of the
\* image uploaded first, and still one fetch and one upload were made.
C1_Witness ==
    /\ program = "app"
    /\ cur.kind = "image"
    /\ cur.reply_token = 2
    /\ Len(fetch_calls) = 1
    /\ Len(upload_calls) = 1
    /\ upload_calls[1].kind = "image"
    /\ upload_calls[1].message_id = cur.message_id
    /\ upload_calls[1].file_id # 0

\* C2: in app.py, with handlers running concurrently, at most one handler
\* per kind and message id gets past the duplicate check, and the uploader is
\* called at most once for it.
C2_ConcurrentUploadedAtMostOnce ==
    \A k \in MediaKinds, id \in MessageIds :
        /\ UploadCount(k, id) <= 1
        /\ Cardinality({t \in 1..NThreads :
                          /\ thr[t].kind = k
                          /\ thr[t].message_id = id
                          /\ thr[t].pc \in {"add", "process", "done"}}) <= 1

\* C3: in app.py, an id is in processed_image_ids (processed_video_ids) only
\* if an upload for it returned a file id.
C3_SeenOnlyAfterSuccess ==
    program = "app" =>
        /\ \A id \in processed_image_ids :
             \E i \in 1..Len(upload_calls) :
                 /\ upload_calls[i].kind = "image"
                 /\ upload_calls[i].message_id = id
                 /\ upload_calls[i].file_id # 0
        /\ \A id \in processed_video_ids :
             \E i \in 1..Len(upload_calls) :
                 /\ upload_calls[i].kind = "video"
                 /\ upload_calls[i].message_id = id
                 /\ upload_calls[i].file_id # 0

\* C4: a request whose signature does not verify is answered 400 and runs
\* no handler: the log, the table, the drive, the duplicate sets, the
\* counters, the albums and the replies are as before.
C4_InvalidSignatureRejected ==
    [][(pc = "idle" /\ ~sig_ok')
       => (/\ http_response' = 400
           /\ pc' = "idle"
           /\ handled' = handled
           /\ NoSideEffect
           /\ UNCHANGED replies)]_vars

\* C4 witness: a request with a bad signature was answered 400 by a process
\* that had already stored a text and uploaded nothing since.
C4_Witness ==
    /\ ~sig_ok
    /\ http_response = 400
    /\ pc = "idle"
    /\ handled >= 1
    /\ Len(local_log) >= 1

\* C5: every request with a valid signature is answered 200, whatever its
\* handlers do, and with every event of its batch dispatched.
C5_ValidRequestAnswered200 ==
    (sig_ok /\ pc = "idle" /\ http_response # 0)
        => (http_response = 200 /\ dropped = 0)

\* C6: no event of a validly signed batch is left without its handler being
\* run because the handler of another event raised.
C6_NoEventDropped == dropped = 0

\* C7: a text event whose trimmed body is exactly the bare command gets one
\* reply, the usage instructions, and nothing else changes.
C7_BareCommand ==
    [][(HandlerStep /\ cur'.kind = "text" /\ IsBare(Body(cur')))
       => (/\ replies' = Append(replies, [token |-> cur'.reply_token,
                                          text |-> REPLY_USAGE])
           /\ NoSideEffect)]_vars

\* C7 witness: the bare command, sent with surrounding whitespace, was
\* answered with the usage instructions.
C7_Witness ==
    /\ cur.kind = "text"
    /\ cur.text # CREATE_ALBUM
    /\ IsBare(Body(cur))
    /\ replies # << >>
    /\ Last(replies) = [token |-> cur.reply_token, text |-> REPLY_USAGE]

\* C8: a text event that starts with the command prefix and is malformed (no
\* "," in the remainder, or the trimmed part before the first "," not a
\* YYYY-MM-DD calendar date) gets one reply, the format-error message in the
\* first case and the invalid-date message in the second, and nothing else
\* changes.
C8_MalformedCommand ==
    [][(HandlerStep /\ cur'.kind = "text")
       => \A body \in {Body(cur')} : \A rest \in {Rest(body)} :
          \A datePart \in {strip(BeforeFirstComma(rest))} :
            (/\ HasPrefix(body)
             /\ \/ ~HasComma(rest)
                \/ ~IsIsoDate(datePart))
            => (/\ replies' =
                     Append(replies,
                            [token |-> cur'.reply_token,
                             text |-> IF HasComma(rest)
                                      THEN REPLY_INVALID_DATE ELSE REPLY_FORMAT_ERROR])
                /\ NoSideEffect)]_vars

\* C9: a text event "CREATE_ALBUM:<rest>" whose rest holds a "," and whose
\* trimmed part before the first "," is a valid YYYY-MM-DD date gets one
\* reply, the confirmation holding datePart "_" albumName, albumName being
\* the trimmed text after the first ","; main_vers3 records that identity
\* for the sender.
C9_AlbumIdentity ==
    [][(HandlerStep /\ cur'.kind = "text")
       => \A body \in {Body(cur')} : \A rest \in {Rest(body)} :
          \A datePart \in {strip(BeforeFirstComma(rest))} :
          \A albumName \in {strip(AfterFirstComma(rest))} :
            (HasPrefix(body) /\ HasComma(rest) /\ IsIsoDate(datePart))
            => (/\ replies' =
                     Append(replies,
                            [token |-> cur'.reply_token,
                             text |-> REPLY_CREATED_PREFIX \o datePart
                                        \o << "_" >> \o albumName])
                /\ program = "main_vers3"
                     => user_albums'[cur'.user_id]
                          = datePart \o << "_" >> \o albumName)]_vars

\* C9 witness: the album name "a,b" keeps its comma, and the example of the
\* specification gives 2023-03-12_<my holiday>.
C9_Witness ==
    /\ cur.kind = "text"
    /\ replies # << >>
    /\ Last(replies).token = cur.reply_token
    /\ \/ /\ \E body \in {Body(cur)} : \E rest \in {Rest(body)} :
                 HasComma(AfterFirstComma(rest))
          /\ Last(replies).text =
               REPLY_CREATED_PREFIX \o << "2", "0", "2", "4", "-", "0", "2", "-", "2", "9",
                                          "_", "a", ",", "b" >>
       \/ /\ program = "app"
          /\ handled = 2
          /\ Last(replies).text =
               REPLY_CREATED_PREFIX \o << "2", "0", "2", "3", "-", "0", "3", "-", "1", "2",
                                          "_", "U+6211", "U+7684", "U+5047", "U+671F" >>

\* C10 as claimed: in app.py a text event gets one log line and one table
\* row and no reply if and only if it is not a recognized command.
C10_PersistedIffNotCommand ==
    [][(program = "app" /\ HandlerStep /\ cur'.kind = "text")
       => ((/\ Len(local_log') = Len(local_log) + 1
            /\ Len(messages') = Len(messages) + 1
            /\ replies' = replies)
           <=> ~IsCommand(Body(cur')))]_vars

\* C10 as amended: in app.py a recognized command is never written and gets
\* one reply; any other text gets no reply, its line is appended unless the
\* append fails (and then the handler raises), and its row is inserted, after
\* the line, unless the append or the insert fails.
C10_PersistedUnlessWriteFails ==
    [][(program = "app" /\ HandlerStep /\ cur'.kind = "text")
       => IF IsCommand(Body(cur'))
          THEN /\ UNCHANGED store_vars
               /\ Len(replies') = Len(replies) + 1
          ELSE /\ replies' = replies
               /\ \/ local_log' = local_log /\ cur_result' = "raised"
                  \/ /\ Len(local_log') = Len(local_log) + 1
                     /\ SubSeq(local_log', 1, Len(local_log)) = local_log
                     /\ cur_result' = "returned"
               /\ \/ messages' = messages
                  \/ /\ Len(messages') = Len(messages) + 1
                     /\ SubSeq(messages', 1, Len(messages)) = messages
                     /\ Last(messages').message_text = Body(cur')
                     /\ Last(messages').user_id = cur'.user_id
                     /\ local_log' # local_log]_vars

\* C10 witness: the first event, an ordinary text, is in the log and in the
\* table, and was not answered.
C10_Witness ==
    /\ program = "app"
    /\ handled = 1
    /\ cur.kind = "text"
    /\ ~IsCommand(Body(cur))
    /\ Len(local_log) = 1
    /\ Len(messages) = 1
    /\ messages[1].message_text = Body(cur)
    /\ replies = << >>


\* An uploader call has just been made; it is the last of upload_calls'.
UploadStep == Len(upload_calls') = Len(upload_calls) + 1

\* The files named filename in a folder named day_folder.
FilesNamed(files, folders, filename, day_folder) ==
    {i \in 1..Len(files) :
       files[i].name = filename /\ folders[files[i].parent] = day_folder}

\* C11: an uploader call that returns (the credentials and the two list
\* queries answered) while the day folder holds a file of the target name
\* returns that file's id and creates no file; of two calls with the same
\* file name and day folder that return, the first with an id, the second
\* returns the same id, and the folder holds exactly one file of that name.
C11_UploadIdempotentByName ==
    /\ [][UploadStep =>
            LET call == Last(upload_calls')
                had  == FilesNamed(drive_files, drive_folders,
                                   call.filename, call.day_folder)
            IN  (had # {} /\ ~call.raised)
                    => (call.file_id \in had /\ drive_files' = drive_files)]_vars
    /\ [](\A i, j \in 1..Len(upload_calls) :
            (/\ i < j
             /\ upload_calls[i].filename = upload_calls[j].filename
             /\ upload_calls[i].day_folder = upload_calls[j].day_folder
             /\ ~upload_calls[i].raised /\ ~upload_calls[j].raised
             /\ upload_calls[i].file_id # 0)
            => (/\ upload_calls[j].file_id = upload_calls[i].file_id
                /\ Cardinality(FilesNamed(drive_files, drive_folders,
                                          upload_calls[i].filename,
                                          upload_calls[i].day_folder)) = 1))

\* C11 witness: the image uploader and then the video uploader were called
\* with the same name and day; both returned the id of the one file stored.
C11_Witness ==
    /\ Len(upload_calls) = 2
    /\ upload_calls[1].kind = "image" /\ upload_calls[2].kind = "video"
    /\ upload_calls[1].filename = upload_calls[2].filename
    /\ upload_calls[1].day_folder = upload_calls[2].day_folder
    /\ upload_calls[1].file_id = 1
    /\ upload_calls[2].file_id = 1
    /\ Len(drive_files) = 1

\* C12: two calls of get_or_create_subfolder for the same day that returned
\* got the same folder id, and the parent holds at most one folder of a name,
\* also when the calls run concurrently.
C12_SameFolderBothTimes ==
    /\ \A t, u \in 1..NThreads :
         (/\ thr[t].pc = "done" /\ thr[u].pc = "done"
          /\ thr[t].message_id = thr[u].message_id)
         => thr[t].folder_id = thr[u].folder_id
    /\ \A name \in DayFolders :
         Cardinality({i \in 1..Len(drive_folders) : drive_folders[i] = name}) <= 1

\* C13: no call of upload_image_to_drive / upload_video_to_drive raises to the
\* handler: a provider error ends the call with the result None.
C13_UploadNeverRaises ==
    \A i \in 1..Len(upload_calls) : ~upload_calls[i].raised

\* C14: in app.py, the handler of a text that is not a command returns
\* whether or not its writes fail, and a failed append to the local log does
\* not keep the row from being inserted (nor a failed insert the line from
\* being appended).
C14_TextWriteFailureNonFatal ==
    [][(/\ program = "app"
        /\ HandlerStep
        /\ cur'.kind = "text"
        /\ ~IsCommand(Body(cur')))
       => (/\ cur_result' = "returned"
           /\ \/ Len(local_log') = Len(local_log) + 1
              \/ Len(messages') = Len(messages) + 1)]_vars

\* C15: in app.py, an image or video handler that made the profile lookup
\* goes on to call the uploader, whatever the lookup did.
C15_ProfileFailureNonFatal ==
    [][(/\ program = "app"
        /\ HandlerStep
        /\ cur'.kind \in MediaKinds
        /\ Len(profile_calls') = Len(profile_calls) + 1)
       => (/\ UploadStep
           /\ Last(upload_calls').kind = cur'.kind
           /\ Last(upload_calls').message_id = cur'.message_id)]_vars

\* The character class [A-Za-z0-9_-].
InClass(c) == c \in SafeChars

\* C16: sanitize_filename returns the characters of its input that are in
\* [A-Za-z0-9_-], in their order, and nothing else; sanitizing the result
\* again changes nothing.
C16_SanitizeKeepsClassOnly ==
    /\ fn_result = SelectSeq(fn_args, InClass)
    /\ \A i \in 1..Len(fn_result) : InClass(fn_result[i])
    /\ sanitize_filename(fn_result) = fn_result

\* C16 witness: a name with a character outside ASCII, a space and kept
\* characters lost the first two and nothing else.
C16_Witness ==
    /\ fn_args = << "U+66FE", " ", "-" >>
    /\ fn_result = << "-" >>

\* C17: two image events (or two video events) of different message ids get
\* different filenames, whatever their display names and timestamps.
C17_FilenameUniquePerMessage ==
    Len(fn_args) = 3 => fn_result[1] # fn_result[2]

\* C17 witness: two events that agree in display name and timestamp, the id
\* of one the tail of the other's, got two filenames.
C17_Witness ==
    /\ Len(fn_args) = 3
    /\ fn_args[2].display_name = fn_args[3].display_name
    /\ fn_args[2].timestamp = fn_args[3].timestamp
    /\ fn_args[2].message_id = << "1" >>
    /\ fn_args[3].message_id = << "4", "1" >>
    /\ fn_result[1] # fn_result[2]

\* The files a message's uploads left on the Drive: those with the filename
\* of one of its uploader calls.
FilesOfMessage(kind, id) ==
    {f \in 1..Len(drive_files) :
       \E i \in 1..Len(upload_calls) :
           /\ upload_calls[i].kind = kind
           /\ upload_calls[i].message_id = id
           /\ upload_calls[i].filename = drive_files[f].name}

\* C18: in app.py, every uploader call made for one image (video) message,
\* across restarts of the process, is given the same filename and the same
\* day folder, and the Drive holds at most one file for the message.
C18_RedeliverySameName ==
    \A k \in MediaKinds, id \in MessageIds :
        /\ \A i, j \in 1..Len(upload_calls) :
             (/\ upload_calls[i].kind = k /\ upload_calls[j].kind = k
              /\ upload_calls[i].message_id = id /\ upload_calls[j].message_id = id)
             => (/\ upload_calls[i].filename = upload_calls[j].filename
                 /\ upload_calls[i].day_folder = upload_calls[j].day_folder)
        /\ Cardinality(FilesOfMessage(k, id)) <= 1

\* The UTC calendar day of a timestamp, written YYYY-MM-DD.
UtcDay(ts) == strftime_Y_m_d(fromtimestamp(ts, 0))

\* C19: in app.py, the day folder handed to the uploader is the UTC calendar
\* day of the event's timestamp.
C19_DayFolderIsUtcDay ==
    program = "app" =>
        \A i \in 1..Len(upload_calls) :
            upload_calls[i].day_folder = UtcDay(TimestampOf(upload_calls[i].message_id))

\* C20: in app.py, the image handler decides on processed_image_ids alone and
\* changes no other set, the video handler does the same with
\* processed_video_ids, and no other handler changes either set: an event
\* whose id is not in its own kind's set is recorded there and its content
\* fetched, whatever the other set holds; one whose id is in it is skipped.
C20_DedupScopedPerKind ==
    [][(program = "app" /\ HandlerStep)
       => LET fetched == Len(fetch_calls') = Len(fetch_calls) + 1
          IN  /\ cur'.kind = "image"
                   => /\ processed_video_ids' = processed_video_ids
                      /\ processed_image_ids' = processed_image_ids \cup {cur'.message_id}
                      /\ fetched <=> cur'.message_id \notin processed_image_ids
              /\ cur'.kind = "video"
                   => /\ processed_image_ids' = processed_image_ids
                      /\ processed_video_ids' = processed_video_ids \cup {cur'.message_id}
                      /\ fetched <=> cur'.message_id \notin processed_video_ids
              /\ cur'.kind \notin MediaKinds
                   => /\ UNCHANGED << processed_image_ids, processed_video_ids >>
                      /\ ~fetched]_vars

\* C20 witness: a video event carrying the id of an image handled before was
\* fetched and handed to the uploader.
C20_Witness ==
    /\ program = "app"
    /\ cur.kind = "video"
    /\ cur.message_id \in processed_image_ids
    /\ Len(fetch_calls) = 2
    /\ Len(upload_calls) = 2
    /\ upload_calls[1].kind = "image"
    /\ upload_calls[2].kind = "video"
    /\ upload_calls[2].message_id = upload_calls[1].message_id
    /\ upload_calls[2].file_id = 2

\* C21: in main_vers4, no two files the process saved have the same folder
\* and filename.
C21_NoFilenameCollision ==
    \A i, j \in 1..Len(local_files) :
        (/\ i < j
         /\ local_files[i].folder = local_files[j].folder
         /\ local_files[i].filename = local_files[j].filename)
        => FALSE

\* The folder main_vers3 files the media of sender s under.
AlbumOf(albums, s) ==
    IF s \in DOMAIN albums THEN albums[s] ELSE << "d", "e", "f", "a", "u", "l", "t" >>

\* A postback whose data reads as key=value pairs with action=create_album.
IsCreateAlbumPostback(event) ==
    /\ event.kind = "postback"
    /\ \A i \in 1..Len(event.data) : Len(event.data[i]) = 2
    /\ \E i \in 1..Len(event.data) :
         /\ event.data[i][1] = << "action" >>
         /\ event.data[i][2] = << "create_album" >>
         /\ \A j \in (i + 1)..Len(event.data) : event.data[j][1] # << "action" >>

\* C22: in main_vers3, a handler changes the album of a sender only when the
\* event is a valid text command (YYYY-MM-DD date before the first ",") or a
\* create_album postback of that sender, and then to that event's album
\* identity; an image or video is saved into the album its sender had before
\* the event, "default" if none.
C22_AlbumOfLastCreate ==
    [][(program = "main_vers3" /\ HandlerStep)
       => \A body \in {IF cur'.kind = "text" THEN Body(cur') ELSE << >>} :
          \A rest \in {Rest(body)} :
          \A datePart \in {strip(BeforeFirstComma(rest))} :
          \A albumName \in {strip(AfterFirstComma(rest))} :
            LET validText == /\ cur'.kind = "text"
                             /\ HasPrefix(body) /\ HasComma(rest) /\ IsIsoDate(datePart)
            IN  /\ \A s \in Users :
                     AlbumOf(user_albums', s) =
                       IF validText /\ s = cur'.user_id
                       THEN datePart \o << "_" >> \o albumName
                       ELSE IF IsCreateAlbumPostback(cur') /\ s = cur'.user_id
                       THEN postback_album_name(cur'.data)
                       ELSE AlbumOf(user_albums, s)
                /\ (cur'.kind \in MediaKinds /\ Len(local_files') = Len(local_files) + 1)
                     => Last(local_files').folder = AlbumOf(user_albums, cur'.user_id)]_vars

\* C23: in app.py no reply token is used twice, and a handler makes at most
\* one reply_message call, with its event's token: exactly one for a text
\* that is a recognized command and for a create_album postback, none for any
\* other text or postback (one whose data does not read as key=value pairs
\* included) and none for an image, a video or any other event.
C23_ReplyTokenUsedAtMostOnce ==
    /\ [](program = "app" =>
            \A i, j \in 1..Len(replies) : replies[i].token = replies[j].token => i = j)
    /\ [][(program = "app" /\ HandlerStep)
          => LET replying == \/ cur'.kind = "text" /\ IsCommand(Body(cur'))
                             \/ IsCreateAlbumPostback(cur')
             IN  IF replying
                 THEN /\ Len(replies') = Len(replies) + 1
                      /\ SubSeq(replies', 1, Len(replies)) = replies
                      /\ Last(replies').token = cur'.reply_token
                 ELSE replies' = replies]_vars

\* C23 witness: two events of one batch, a text command and a create_album
\* postback, were each answered once with their own token.
C23_Witness ==
    /\ program = "app"
    /\ handled = 2
    /\ cur.kind = "postback"
    /\ Len(replies) = 2
    /\ replies[1].token = 1
    /\ replies[2].token = 2
    /\ http_response = 0

\* C24: in app.py every row of the messages table has its line in the local
\* log, and a row is only ever inserted by a handler that has just appended
\* that line: the table can lack a logged message, never hold an unlogged
\* one.
C24_RowOnlyAfterLine ==
    /\ [](program = "app" =>
            /\ Len(messages) <= Len(local_log)
            /\ \A r \in 1..Len(messages) :
                 \E i \in 1..Len(local_log) :
                     local_log[i] = log_line(messages[r].created_at,
                                             messages[r].display_name,
                                             messages[r].message_text))
    /\ [][(program = "app" /\ messages' # messages)
          => (/\ Len(local_log') = Len(local_log) + 1
              /\ Last(local_log') = log_line(Last(messages').created_at,
                                             Last(messages').display_name,
                                             Last(messages').message_text))]_vars

\* C24 witness: two texts were logged, the insert of the first failed, and
\* the one row of the table is the second line of the log.
C24_Witness ==
    /\ program = "app"
    /\ Len(local_log) = 2
    /\ Len(messages) = 1
    /\ local_log[2] = log_line(messages[1].created_at, messages[1].display_name,
                               messages[1].message_text)
    /\ local_log[1] # local_log[2]
====
